---- MODULE Spec2Model ----
(***************************************************************************)
(* Pattern matching engine of app.py: PatternMatcher (year-to-date and     *)
(* quarterly cumulative-return correlation, ranking scans) and the part of *)
(* main() that configures and drives it.                                   *)
(*                                                                         *)
(* Numbers.  Prices are positive integers.  A return is an exact fraction  *)
(* [n, d]; the code's float64 arithmetic is modelled by exact rational     *)
(* arithmetic.  A correlation coefficient r is kept as its sign and the    *)
(* reduced fraction r^2 = num/den (NaN is a value of its own), which is    *)
(* enough to compare coefficients with each other and with a threshold.    *)
(* Thresholds are integers in hundredths (70 stands for 0.70).             *)
(***************************************************************************)
EXTENDS Integers, Sequences, FiniteSets, TLC

\* ------------------------------------------------------------- bounds
\* Number of calendar years a fetched series may span.
NumYears == 5
\* Trading days per calendar month (days 4, 8, 12, ...).
DaysPerMonth == 6
\* Observations kept in a year with a data gap.
ShortLen == 19

\* -------------------------------------------------- program constants
StartYear == 2006
MinYtdLen == 20
MinQuarterLen == 15
DefaultMinCorrelation == 70
DefaultTopN == 5

LastYear == StartYear + NumYears - 1

\* ---------------------------------------------------------- fractions
Abs(x) == IF x < 0 THEN 0 - x ELSE x

Sign(x) == IF x < 0 THEN 0 - 1 ELSE IF x = 0 THEN 0 ELSE 1

RECURSIVE Gcd(_, _)
Gcd(a, b) == IF b = 0 THEN a ELSE Gcd(b, a % b)

\* The fraction n/d (d # 0) in lowest terms with a positive denominator.
Frac(n, d) ==
    LET g == Gcd(Abs(n), Abs(d))
        s == IF d < 0 THEN 0 - 1 ELSE 1
    IN  [n |-> s * (n \div g), d |-> s * (d \div g)]

FracMul(a, b) == Frac(a.n * b.n, a.d * b.d)

FracAddInt(a, k) == Frac(a.n + k * a.d, a.d)

\* a/b <= c/d for a, c >= 0 and b, d > 0, by continued fractions: no product
\* of two large numbers is ever formed.
RECURSIVE FracLeq(_, _, _, _)
FracLeq(a, b, c, d) ==
    LET qa == a \div b
        qc == c \div d
        ra == a % b
        rc == c % d
    IN  IF qa # qc THEN qa < qc
        ELSE IF ra = 0 THEN TRUE
        ELSE IF rc = 0 THEN FALSE
        ELSE FracLeq(d, rc, b, ra)

\* np.nan, and a defined float, as values of one shape.
NaN == [nan |-> TRUE, n |-> 0, d |-> 1]

Num(f) == [nan |-> FALSE, n |-> f.n, d |-> f.d]

\* ((last / first) - 1) * 100
PctChange(first, last) == Num(Frac((last - first) * 100, first))

\* ------------------------------------------------------- coefficients
CorrNaN == [nan |-> TRUE, sgn |-> 0, num |-> 0, den |-> 1]

\* The signed square of a coefficient orders coefficients as they are ordered.
\* c1 <= c2 for two defined coefficients.
CorrLeq(c1, c2) ==
    IF c1.sgn # c2.sgn THEN c1.sgn < c2.sgn
    ELSE IF c1.sgn = 0 THEN TRUE
    ELSE IF c1.sgn > 0 THEN FracLeq(c1.num, c1.den, c2.num, c2.den)
    ELSE FracLeq(c2.num, c2.den, c1.num, c1.den)

\* The threshold t/100 as a coefficient.
Threshold(t) ==
    LET f == Frac(t * t, 10000)
    IN  [nan |-> FALSE, sgn |-> Sign(t), num |-> f.n, den |-> f.d]

\* corr >= min_correlation (False whenever corr is NaN, as any float comparison)
CorrGeq(c, t) == ~c.nan /\ CorrLeq(Threshold(t), c)

CorrOne == [nan |-> FALSE, sgn |-> 1, num |-> 1, den |-> 1]

RECURSIVE SumSeq(_)
SumSeq(s) == IF s = <<>> THEN 0 ELSE Head(s) + SumSeq(Tail(s))

\* Corrcoef with a slip: a zero variance gives the coefficient 0, not nan.
CorrcoefZero(x, y) ==
    LET n   == Len(x)
        sx  == SumSeq(x)
        sy  == SumSeq(y)
        sxy == n * SumSeq([i \in 1..n |-> x[i] * y[i]]) - sx * sy
        sxx == n * SumSeq([i \in 1..n |-> x[i] * x[i]]) - sx * sx
        syy == n * SumSeq([i \in 1..n |-> y[i] * y[i]]) - sy * sy
    IN  IF sxx = 0 \/ syy = 0 \/ sxy = 0
        THEN [nan |-> FALSE, sgn |-> 0, num |-> 0, den |-> 1]
        ELSE LET f == Frac(sxy * sxy, sxx * syy)
             IN  [nan |-> FALSE, sgn |-> Sign(sxy), num |-> f.n, den |-> f.d]

\* np.corrcoef(x, y)[0, 1] for two vectors of the same length, each given as
\* integers over a common positive denominator of its own (Pearson's r does not
\* change when a vector is scaled by a positive factor).  A zero variance makes
\* the quotient 0/0, which is nan.
Corrcoef(x, y) ==
    LET n   == Len(x)
        sx  == SumSeq(x)
        sy  == SumSeq(y)
        sxy == n * SumSeq([i \in 1..n |-> x[i] * y[i]]) - sx * sy
        sxx == n * SumSeq([i \in 1..n |-> x[i] * x[i]]) - sx * sx
        syy == n * SumSeq([i \in 1..n |-> y[i] * y[i]]) - sy * sy
    IN  IF sxx = 0 \/ syy = 0 THEN CorrNaN
        ELSE IF sxy = 0 THEN [nan |-> FALSE, sgn |-> 0, num |-> 0, den |-> 1]
        ELSE LET f == Frac(sxy * sxy, sxx * syy)
             IN  [nan |-> FALSE, sgn |-> Sign(sxy), num |-> f.n, den |-> f.d]

\* ------------------------------------------------- the fetched series
\* A row of the DataFrame: its date (the index), adjusted_close and returns.
\* returns is adjusted_close.pct_change(), an exact fraction.

\* Price paths within a quarter, by month of the quarter (0..2) and trading
\* day of the month (1..DaysPerMonth); shape 8 is a constant price.
ShapePrice(s, mq, j) ==
    CASE s = 0 -> 1 + mq
      [] s = 1 -> IF mq = 2 THEN 3 ELSE 1
      [] s = 2 -> IF mq = 0 THEN 1 ELSE 3
      [] s = 3 -> 3 - mq
      [] s = 4 -> IF mq = 1 THEN 3 ELSE 1
      [] s = 5 -> 1 + (j % 3)
      [] s = 6 -> IF mq = 1 THEN 1 ELSE 3
      [] s = 7 -> 1 + ((mq + j) % 3)
      [] OTHER -> 2

\* The shape of each quarter, by age of the year (LastYear has age 0).
ShapeTable ==
    << << <<0, 0, 2, 5>>, <<0, 1, 6, 3>>, <<1, 0, 4, 7>>, <<2, 2, 5, 1>>, <<0, 4, 3, 6>> >>,
       << <<1, 1, 0, 0>>, <<3, 0, 7, 2>>, <<4, 2, 1, 5>>, <<1, 3, 6, 4>>, <<5, 1, 2, 7>> >> >>

\* quarter_months of get_quarter_data, inverted.
QuarterOf(month) == (month - 1) \div 3 + 1

\* A series scenario: the first year fetched, the table of shapes, and one
\* year (dyear) that is flat, short (its first ShortLen trading days only) or
\* missing altogether.
Scenarios ==
    [first : {StartYear, LastYear - 1}, variant : {1, 2}, defect : {"none"}, dyear : {LastYear}]
    \cup [first : {StartYear}, variant : {1},
          defect : {"flat", "short", "absent"}, dyear : {LastYear - 1, LastYear}]

ScenarioPrice(sc, year, month, j) ==
    IF sc.defect = "flat" /\ year = sc.dyear THEN 2
    ELSE LET ages == ShapeTable[sc.variant]
             row  == ages[((LastYear - year) % Len(ages)) + 1]
         IN  ShapePrice(row[QuarterOf(month)], (month - 1) % 3, j)

OnOrBefore(r, month, day) == r.month < month \/ (r.month = month /\ r.day <= day)

\* The provider's rows for a scenario when fetched on `today`: date and
\* adjusted_close, ascending by date.
RawSeries(sc, today) ==
    LET per == 12 * DaysPerMonth
        n   == (today.year - sc.first + 1) * per
        Row(i) ==
            LET rem == (i - 1) % per
                y   == sc.first + ((i - 1) \div per)
                m   == (rem \div DaysPerMonth) + 1
                j   == (rem % DaysPerMonth) + 1
            IN  [year |-> y, month |-> m, day |-> 4 * j, slot |-> rem + 1,
                 adjusted_close |-> ScenarioPrice(sc, y, m, j)]
        Kept(r) ==
            /\ r.year < today.year \/ OnOrBefore(r, today.month, today.day)
            /\ ~(sc.defect = "absent" /\ r.year = sc.dyear)
            /\ ~(sc.defect = "short" /\ r.year = sc.dyear /\ r.slot > ShortLen)
    IN  SelectSeq([i \in 1..n |-> Row(i)], Kept)

\* fetch_data's table: returns = adjusted_close.pct_change(), then dropna(),
\* which drops the first row (its return is undefined).
Frame(raw) ==
    [i \in 1..(Len(raw) - 1) |->
        [year |-> raw[i + 1].year, month |-> raw[i + 1].month, day |-> raw[i + 1].day,
         adjusted_close |-> raw[i + 1].adjusted_close,
         returns |-> Frac(raw[i + 1].adjusted_close - raw[i].adjusted_close,
                          raw[i].adjusted_close)]]

EmptyFrame == <<>>

\* What a function that falls off its end returns; it is not a table.
None == <<"None">>

\* ------------------------------------------------------- PatternMatcher
\* self.data[self.data.index.year == year]
YearData(data, year) ==
    LET InYear(r) == r.year = year
    IN  SelectSeq(data, InYear)

\* The year-to-date extract: rows of the year on or before (month, day).
YtdData(data, year, month, day) ==
    LET Ytd(r) == OnOrBefore(r, month, day)
    IN  SelectSeq(YearData(data, year), Ytd)

\* quarter_months.get(quarter, [])
QuarterMonths(quarter) ==
    IF quarter \in 1..4 THEN (3 * quarter - 2)..(3 * quarter) ELSE {}

get_quarter_data(data, year, quarter) ==
    LET InQuarter(r) == r.month \in QuarterMonths(quarter)
    IN  SelectSeq(YearData(data, year), InQuarter)

FracAdd(a, b) == Frac(a.n * b.d + b.n * a.d, a.d * b.d)

\* CumprodFrom with a slip: cumsum for cumprod.
RECURSIVE CumsumFrom(_, _, _, _, _)
CumsumFrom(rows, i, last, acc, out) ==
    IF i > last THEN out
    ELSE LET p == FracAdd(acc, rows[i].returns)
         IN  CumsumFrom(rows, i + 1, last, p, Append(out, Num(FracAddInt(p, 0 - 1))))

\* ((1 + rows['returns'].iloc[:min_len]).cumprod() - 1).values
RECURSIVE CumprodFrom(_, _, _, _, _)
CumprodFrom(rows, i, last, acc, out) ==
    IF i > last THEN out
    ELSE LET p == FracMul(acc, FracAddInt(rows[i].returns, 1))
         IN  CumprodFrom(rows, i + 1, last, p, Append(out, Num(FracAddInt(p, 0 - 1))))

CumReturns(rows, min_len) == CumprodFrom(rows, 1, min_len, Frac(1, 1), <<>>)

RECURSIVE LcmDen(_)
LcmDen(s) ==
    IF s = <<>> THEN 1
    ELSE LET l == LcmDen(Tail(s))
         IN  (l \div Gcd(l, Head(s).d)) * Head(s).d

\* A vector of fractions as integers over their common denominator.
Scaled(s) ==
    LET l == LcmDen(s)
    IN  [i \in 1..Len(s) |-> s[i].n * (l \div s[i].d)]

\* mask = ~(isnan(c1) | isnan(c2)); the coefficient of c1[mask], c2[mask],
\* nan when fewer than min_valid positions are left.
MaskedCorr(c1, c2, min_valid) ==
    LET Idx  == {i \in 1..Len(c1) : ~c1[i].nan /\ ~c2[i].nan}
        Pos  == SelectSeq([i \in 1..Len(c1) |-> i], LAMBDA i : i \in Idx)
        m1   == [k \in 1..Len(Pos) |-> c1[Pos[k]]]
        m2   == [k \in 1..Len(Pos) |-> c2[Pos[k]]]
    IN  IF Len(Pos) < min_valid THEN CorrNaN
        ELSE Corrcoef(Scaled(m1), Scaled(m2))

Min(a, b) == IF a < b THEN a ELSE b

\* calculate_ytd_correlation with a slip: 10 observations are enough.
calculate_ytd_correlation_min10(data, year1, year2, end_month, end_day) ==
    LET data1   == YtdData(data, year1, end_month, end_day)
        data2   == YtdData(data, year2, end_month, end_day)
        min_len == Min(Len(data1), Len(data2))
    IN  IF min_len < 10 THEN CorrNaN
        ELSE MaskedCorr(CumReturns(data1, min_len), CumReturns(data2, min_len), 10)

\* calculate_ytd_correlation with a slip: both paths are cut at len(data1), so
\* that np.corrcoef raises on vectors of two lengths when data2 is the shorter
\* (and the except clause returns nan).
calculate_ytd_correlation_len1(data, year1, year2, end_month, end_day) ==
    LET data1   == YtdData(data, year1, end_month, end_day)
        data2   == YtdData(data, year2, end_month, end_day)
        min_len == Min(Len(data1), Len(data2))
    IN  IF min_len < MinYtdLen \/ Len(data2) < Len(data1) THEN CorrNaN
        ELSE MaskedCorr(CumReturns(data1, Len(data1)), CumReturns(data2, Len(data1)),
                        MinYtdLen)

\* The try block of calculate_ytd_correlation, with the cutoff it read from
\* the clock.
calculate_ytd_correlation(data, year1, year2, end_month, end_day) ==
    LET data1   == YtdData(data, year1, end_month, end_day)
        data2   == YtdData(data, year2, end_month, end_day)
        min_len == Min(Len(data1), Len(data2))
    IN  IF min_len < MinYtdLen THEN CorrNaN
        ELSE MaskedCorr(CumReturns(data1, min_len), CumReturns(data2, min_len), MinYtdLen)

\* calculate_quarterly_correlation with a slip: 10 observations are enough.
calculate_quarterly_correlation_min10(data, year1, q1, year2, q2) ==
    LET data1   == get_quarter_data(data, year1, q1)
        data2   == get_quarter_data(data, year2, q2)
        min_len == Min(Len(data1), Len(data2))
    IN  IF Len(data1) < 10 \/ Len(data2) < 10 THEN CorrNaN
        ELSE MaskedCorr(CumReturns(data1, min_len), CumReturns(data2, min_len), 10)

\* The try block of calculate_quarterly_correlation.
calculate_quarterly_correlation(data, year1, q1, year2, q2) ==
    LET data1   == get_quarter_data(data, year1, q1)
        data2   == get_quarter_data(data, year2, q2)
        min_len == Min(Len(data1), Len(data2))
    IN  IF Len(data1) < MinQuarterLen \/ Len(data2) < MinQuarterLen THEN CorrNaN
        ELSE MaskedCorr(CumReturns(data1, min_len), CumReturns(data2, min_len),
                        MinQuarterLen)

\* The try block of _get_ytd_return.
get_ytd_return(data, year, month, day) ==
    LET subset == YtdData(data, year, month, day)
    IN  IF Len(subset) > 1
        THEN PctChange(subset[1].adjusted_close, subset[Len(subset)].adjusted_close)
        ELSE NaN

\* The try block of _get_quarter_return.
get_quarter_return(data, year, quarter) ==
    LET rows == get_quarter_data(data, year, quarter)
    IN  IF Len(rows) > 1
        THEN PctChange(rows[1].adjusted_close, rows[Len(rows)].adjusted_close)
        ELSE NaN

\* sorted(self.data.index.year.unique())
RECURSIVE SortedSeq(_)
SortedSeq(S) ==
    IF S = {} THEN <<>>
    ELSE LET m == CHOOSE x \in S : \A y \in S : x <= y
         IN  <<m>> \o SortedSeq(S \ {m})

Years(data) == SortedSeq({data[i].year : i \in 1..Len(data)})

\* c1 < c2 as sort_values orders coefficients (NaN last in a descending sort).
CorrLess(c1, c2) ==
    IF c2.nan THEN FALSE
    ELSE IF c1.nan THEN TRUE
    ELSE ~CorrLeq(c2, c1)

\* df_corr.sort_values('correlation', ascending=False).head(top_n): every
\* list the call may return.  The default sort kind (quicksort) is not stable,
\* so rows with equal coefficients may come out in any order.
RECURSIVE SortHeadFrom(_, _, _)
SortHeadFrom(rows, S, k) ==
    IF k = 0 \/ S = {} THEN {<<>>}
    ELSE LET Top == {i \in S : \A j \in S : ~CorrLess(rows[i].correlation, rows[j].correlation)}
         IN  UNION {{<<rows[i]>> \o t : t \in SortHeadFrom(rows, S \ {i}, k - 1)} : i \in Top}

\* SortHead with a slip: head without the sort.
HeadUnsorted(rows, top_n) == {SubSeq(rows, 1, IF top_n < Len(rows) THEN top_n ELSE Len(rows))}

\* SortHead with a slip: the sort without head.
SortUntruncated(rows, top_n) == SortHeadFrom(rows, 1..Len(rows), Len(rows))

SortHead(rows, top_n) == SortHeadFrom(rows, 1..Len(rows), top_n)

\* -------------------------------------------------------------- state
VARIABLES
    now,              \* the host clock: datetime.now()
    Config,           \* the class attributes of Config
    pc,               \* where the script or the caller stands
    caller,           \* "main" (the Streamlit script) or "host" (a direct caller)
    data,             \* the DataFrame: main's data, aliased by matcher.data
    args,             \* the arguments of the find_similar_* call in progress
    idx,              \* the scan's position in its list of candidates
    corr,             \* the candidate last handled and its coefficient
    correlations,     \* the list the scan appends to
    similar_years,    \* the value find_similar_years returned
    similar_quarters, \* the value find_similar_quarters returned
    raised,           \* the exception that left the core, or "none"
    calls,            \* the calls a long-lived matcher has answered, in order
    runs,             \* the runs of main() in progress on one loaded module
    reads             \* the values a scan has read from the clock, per candidate

vars == <<now, Config, pc, caller, data, args, idx, corr, correlations,
          similar_years, similar_quarters, raised, calls, runs, reads>>

\* The dates the clock takes, in order.
ClockDates ==
    << [year |-> LastYear, month |-> 4, day |-> 8],
       [year |-> LastYear, month |-> 6, day |-> 8],
       [year |-> LastYear, month |-> 6, day |-> 12] >>

\* Values of the two sliders of main's sidebar (0.5 to 0.95; 3 to 10).
SliderMinCorrelation == {50, 70, 95}

SliderTopN == {3, 5}

\* Arguments of a direct call of the matcher's methods.
HostYears == {LastYear, LastYear + 1}

HostQuarters == {0, 1}

HostMinCorrelation == {0 - 100, 0}

NoArgs == [fn |-> "none", reference_year |-> 0, reference_quarter |-> 0, min_correlation |-> 0,
           years |-> <<>>]

\* class Config, as the script defines it when it starts.
ConfigDefaults(today) ==
    [MIN_CORRELATION |-> DefaultMinCorrelation, TOP_N_SIMILAR |-> DefaultTopN,
     CURRENT_YEAR |-> today.year]

NoCorr == [year |-> 0, quarter |-> 0, value |-> CorrNaN, fault |-> "none"]

Unset == <<"unset">>

\* The frames fetch_data may hand over on `today`.
Frames(today) == {Frame(RawSeries(sc, today)) : sc \in Scenarios} \cup {EmptyFrame}

\* The (year, quarter) pairs of find_similar_quarters' two loops, in order.
QuarterKeys(ys) ==
    [k \in 1..(4 * Len(ys)) |->
        [year |-> ys[((k - 1) \div 4) + 1], quarter |-> ((k - 1) % 4) + 1]]

Init ==
    /\ now = ClockDates[1]
    /\ Config = ConfigDefaults(ClockDates[1])
    /\ pc = "idle"
    /\ caller = "none"
    /\ data = EmptyFrame
    /\ args = NoArgs
    /\ idx = 0
    /\ corr = NoCorr
    /\ correlations = <<>>
    /\ similar_years = Unset
    /\ similar_quarters = Unset
    /\ raised = "none"
    /\ calls = <<>>
    /\ runs = <<>>
    /\ reads = <<>>

\* The clock advances between two runs.
Tick ==
    /\ pc = "idle"
    /\ \E k \in 1..(Len(ClockDates) - 1) :
        /\ now = ClockDates[k]
        /\ now' = ClockDates[k + 1]
    /\ UNCHANGED <<Config, pc, caller, data, args, idx, corr, correlations,
                   similar_years, similar_quarters, raised>>
    /\ UNCHANGED <<calls, runs, reads>>

\* The script runs: class Config is defined, then main's sidebar writes the
\* sliders' values to it.
MainSidebar ==
    /\ pc = "idle"
    /\ \E mc \in SliderMinCorrelation, n \in SliderTopN :
        Config' = [ConfigDefaults(now) EXCEPT !.MIN_CORRELATION = mc, !.TOP_N_SIMILAR = n]
    /\ caller' = "main"
    /\ pc' = "fetch"
    /\ similar_years' = Unset
    /\ similar_quarters' = Unset
    /\ raised' = "none"
    /\ UNCHANGED <<now, data, args, idx, corr, correlations>>
    /\ UNCHANGED <<calls, runs, reads>>

\* main: data = fetch_data(...); `if data.empty:` ends the run with st.error
\* on an empty table, and is itself an AttributeError, which nothing in main
\* handles, when fetch_data returned None.
MainFetch ==
    /\ pc = "fetch"
    /\ \E d \in Frames(now) \cup {None} :
        /\ data' = d
        /\ pc' = IF d = None THEN "unhandled"
                 ELSE IF d = EmptyFrame THEN "end" ELSE "construct"
    /\ UNCHANGED <<now, Config, caller, args, idx, corr, correlations,
                   similar_years, similar_quarters, raised>>
    /\ UNCHANGED <<calls, runs, reads>>

\* A direct caller builds a matcher on a table of its own.
HostData ==
    /\ pc = "idle"
    /\ \E d \in Frames(now) : data' = d
    /\ caller' = "host"
    /\ pc' = "construct"
    /\ similar_years' = Unset
    /\ similar_quarters' = Unset
    /\ raised' = "none"
    /\ Config' = ConfigDefaults(now)
    /\ UNCHANGED <<now, args, idx, corr, correlations>>
    /\ UNCHANGED <<calls, runs, reads>>

\* PatternMatcher.__init__ with a slip: the check of data.empty is missing.
PatternMatcherInitUnchecked ==
    /\ pc = "construct"
    /\ pc' = "ready"
    /\ UNCHANGED <<now, Config, caller, data, args, idx, corr, correlations,
                   similar_years, similar_quarters, raised>>
    /\ UNCHANGED <<calls, runs, reads>>

\* PatternMatcher.__init__: `if data.empty: raise ValueError("DataFrame vuoto")`
PatternMatcherInit ==
    /\ pc = "construct"
    /\ IF data = EmptyFrame
       THEN /\ raised' = "ValueError"
            /\ pc' = "end"
       ELSE /\ raised' = raised
            /\ pc' = "ready"
    /\ UNCHANGED <<now, Config, caller, data, args, idx, corr, correlations,
                   similar_years, similar_quarters>>
    /\ UNCHANGED <<calls, runs, reads>>

\* Entry of find_similar_years: correlations = [], years = sorted(...).
EnterYears(reference_year, min_correlation) ==
    /\ args' = [fn |-> "years", reference_year |-> reference_year, reference_quarter |-> 0,
                min_correlation |-> min_correlation, years |-> Years(data)]
    /\ idx' = 1
    /\ corr' = NoCorr
    /\ correlations' = <<>>
    /\ pc' = "years"

\* Entry of find_similar_quarters.
EnterQuarters(reference_year, reference_quarter, min_correlation) ==
    /\ args' = [fn |-> "quarters", reference_year |-> reference_year,
                reference_quarter |-> reference_quarter, min_correlation |-> min_correlation,
                years |-> Years(data)]
    /\ idx' = 1
    /\ corr' = NoCorr
    /\ correlations' = <<>>
    /\ pc' = "quarters"

\* main: similar_years = matcher.find_similar_years(Config.CURRENT_YEAR, Config.MIN_CORRELATION)
MainCallYears ==
    /\ pc = "ready"
    /\ caller = "main"
    /\ EnterYears(Config.CURRENT_YEAR, Config.MIN_CORRELATION)
    /\ UNCHANGED <<now, Config, caller, data, similar_years, similar_quarters, raised>>
    /\ UNCHANGED <<calls, runs, reads>>

\* main: similar_quarters = matcher.find_similar_quarters(Config.CURRENT_YEAR,
\* current_quarter, Config.MIN_CORRELATION)
MainCallQuarters ==
    /\ pc = "years_done"
    /\ caller = "main"
    /\ EnterQuarters(Config.CURRENT_YEAR, QuarterOf(now.month), Config.MIN_CORRELATION)
    /\ UNCHANGED <<now, Config, caller, data, similar_years, similar_quarters, raised>>
    /\ UNCHANGED <<calls, runs, reads>>

HostCallYears ==
    /\ pc = "ready"
    /\ caller = "host"
    /\ \E y \in HostYears, mc \in HostMinCorrelation : EnterYears(y, mc)
    /\ UNCHANGED <<now, Config, caller, data, similar_years, similar_quarters, raised>>
    /\ UNCHANGED <<calls, runs, reads>>

HostCallQuarters ==
    /\ pc = "ready"
    /\ caller = "host"
    /\ \E y \in HostYears, q \in HostQuarters, mc \in HostMinCorrelation :
        EnterQuarters(y, q, mc)
    /\ UNCHANGED <<now, Config, caller, data, similar_years, similar_quarters, raised>>
    /\ UNCHANGED <<calls, runs, reads>>

\* str(n) for n >= 0, as its sequence of decimal digits.
RECURSIVE Digits(_)
Digits(n) == IF n < 10 THEN <<n>> ELSE Append(Digits(n \div 10), n % 10)

\* f"{year}-Q{quarter}"
YearQuarter(year, quarter) == Digits(year) \o <<"-", "Q">> \o Digits(quarter)

\* `if year == reference_year: continue`
SkipsYear(year, reference_year) == year = reference_year

\* SkipsQuarter with a slip: nothing is skipped.
SkipsQuarterNever(year, quarter, reference_year, reference_quarter) == FALSE

\* `if year == reference_year and quarter == reference_quarter: continue`
SkipsQuarter(year, quarter, reference_year, reference_quarter) ==
    year = reference_year /\ quarter = reference_quarter

\* Keeps with a slip: the comparison with the threshold is missing.
KeepsDefined(c, min_correlation) == ~c.nan

\* `if not np.isnan(corr) and corr >= min_correlation`
Keeps(c, min_correlation) == ~c.nan /\ CorrGeq(c, min_correlation)

\* The places where an exception may be raised while one candidate is handled:
\* inside the try block of the correlation function ("corr") or of the return
\* helper ("ret").  Both blocks end in a bare `except`, which catches it.
FaultKinds == {"corr", "ret"}

\* Caught with a slip: no handler.
CaughtNothing(f) == FALSE

Caught(f) == f \in {"corr", "ret"}

\* What the correlation function returns: its except clause returns np.nan.
CorrResult(f, value) == IF f = "corr" THEN CorrNaN ELSE value

\* What the return helper returns: after `except: pass` it returns np.nan.
ReturnResult(f, value) == IF f = "ret" THEN NaN ELSE value

\* The rows find_similar_years appends for a kept candidate.
YearRow(d, year, c, f, month, day) ==
    LET year_data == YearData(d, year)
    IN  [year |-> year,
         correlation |-> c,
         year_return |->
            IF Len(year_data) > 0
            THEN PctChange(year_data[1].adjusted_close,
                           year_data[Len(year_data)].adjusted_close)
            ELSE NaN,
         ytd_return_at_similar_point |->
            IF Len(year_data) > 0
            THEN ReturnResult(f, get_ytd_return(d, year, month, day))
            ELSE NaN]

QuarterRow(d, year, quarter, c, f) ==
    [year |-> year,
     quarter |-> quarter,
     year_quarter |-> YearQuarter(year, quarter),
     correlation |-> c,
     quarter_return |-> ReturnResult(f, get_quarter_return(d, year, quarter))]

\* One pass of the loop body for a candidate that is not skipped: the
\* coefficient c was computed (under fault f), the row is appended if kept.
\* An exception that no handler catches leaves the call.
HandleCandidate(year, quarter, c, f, row) ==
    /\ corr' = [year |-> year, quarter |-> quarter, value |-> c, fault |-> f]
    /\ IF f # "none" /\ ~Caught(f)
       THEN /\ raised' = "Exception"
            /\ pc' = "end"
            /\ UNCHANGED <<idx, correlations>>
       ELSE /\ correlations' =
                IF Keeps(c, args.min_correlation) THEN Append(correlations, row)
                ELSE correlations
            /\ idx' = idx + 1
            /\ UNCHANGED <<pc, raised>>

\* The candidates an exception is injected at: quarter 0 stands for the
\* candidate year of the year scan.
FaultKeys == {[year |-> LastYear - 2, quarter |-> 0], [year |-> LastYear - 2, quarter |-> 1]}

\* The faults that can strike while this candidate is handled: the return
\* helper is only called for a kept candidate.
FaultsFor(year, quarter, value, min_correlation) ==
    {"none"} \cup
    (IF [year |-> year, quarter |-> quarter] \in FaultKeys
     THEN {"corr"} \cup (IF Keeps(value, min_correlation) THEN {"ret"} ELSE {})
     ELSE {})

\* find_similar_years: one iteration of `for year in years`.
FindSimilarYearsStep ==
    /\ pc = "years"
    /\ idx <= Len(args.years)
    /\ LET year == args.years[idx]
       IN  IF SkipsYear(year, args.reference_year)
           THEN /\ idx' = idx + 1
                /\ UNCHANGED <<corr, correlations, pc, raised>>
           ELSE LET value == calculate_ytd_correlation(data, args.reference_year, year,
                                                       now.month, now.day)
                IN  \E f \in FaultsFor(year, 0, value, args.min_correlation) :
                        LET c == CorrResult(f, value)
                        IN  HandleCandidate(year, 0, c, f,
                                            YearRow(data, year, c, f, now.month, now.day))
    /\ UNCHANGED <<now, Config, caller, data, args, similar_years, similar_quarters>>
    /\ UNCHANGED <<calls, runs, reads>>

\* find_similar_years: the lines after the loop.
FindSimilarYearsReturn ==
    /\ pc = "years"
    /\ idx > Len(args.years)
    /\ \E result \in (IF correlations # <<>>
                      THEN SortHead(correlations, Config.TOP_N_SIMILAR)
                      ELSE {<<>>}) :
        similar_years' = result
    /\ pc' = "years_done"
    /\ UNCHANGED <<now, Config, caller, data, args, idx, corr, correlations,
                   similar_quarters, raised>>
    /\ UNCHANGED <<calls, runs, reads>>

\* find_similar_quarters: one iteration of the inner loop.
FindSimilarQuartersStep ==
    /\ pc = "quarters"
    /\ idx <= 4 * Len(args.years)
    /\ LET key == QuarterKeys(args.years)[idx]
       IN  IF SkipsQuarter(key.year, key.quarter, args.reference_year, args.reference_quarter)
           THEN /\ idx' = idx + 1
                /\ UNCHANGED <<corr, correlations, pc, raised>>
           ELSE LET value == calculate_quarterly_correlation(
                                 data, args.reference_year, args.reference_quarter,
                                 key.year, key.quarter)
                IN  \E f \in FaultsFor(key.year, key.quarter, value, args.min_correlation) :
                        LET c == CorrResult(f, value)
                        IN  HandleCandidate(key.year, key.quarter, c, f,
                                            QuarterRow(data, key.year, key.quarter, c, f))
    /\ UNCHANGED <<now, Config, caller, data, args, similar_years, similar_quarters>>
    /\ UNCHANGED <<calls, runs, reads>>

\* find_similar_quarters: the lines after the loops.
FindSimilarQuartersReturn ==
    /\ pc = "quarters"
    /\ idx > 4 * Len(args.years)
    /\ \E result \in (IF correlations # <<>>
                      THEN SortHead(correlations, Config.TOP_N_SIMILAR)
                      ELSE {<<>>}) :
        similar_quarters' = result
    /\ pc' = "quarters_done"
    /\ UNCHANGED <<now, Config, caller, data, args, idx, corr, correlations,
                   similar_years, raised>>
    /\ UNCHANGED <<calls, runs, reads>>

\* The run is over (main returned or raised, the direct caller is done): its
\* locals are gone; Config and the clock stay.
RunEnd ==
    /\ \/ pc = "end"
       \/ pc = "unhandled"
       \/ pc = "quarters_done"
       \/ pc = "years_done" /\ caller = "host"
    /\ pc' = "idle"
    /\ caller' = "none"
    /\ data' = EmptyFrame
    /\ args' = NoArgs
    /\ idx' = 0
    /\ corr' = NoCorr
    /\ correlations' = <<>>
    /\ similar_years' = Unset
    /\ similar_quarters' = Unset
    /\ raised' = "none"
    /\ UNCHANGED <<now, Config>>
    /\ UNCHANGED <<calls, runs, reads>>

Next ==
    \/ Tick
    \/ MainSidebar
    \/ MainFetch
    \/ HostData
    \/ PatternMatcherInit
    \/ MainCallYears
    \/ MainCallQuarters
    \/ HostCallYears
    \/ HostCallQuarters
    \/ FindSimilarYearsStep
    \/ FindSimilarYearsReturn
    \/ FindSimilarQuartersStep
    \/ FindSimilarQuartersReturn
    \/ RunEnd

Spec == Init /\ [][Next]_vars

\* ------------------------------------- a matcher that answers two calls
\* The rows find_similar_years collects in its loop when nothing raises, for
\* the years ys still to visit and the cutoff (month, day) the clock gives.
RECURSIVE YearRowsFrom(_, _, _, _, _, _, _)
YearRowsFrom(d, ys, reference_year, min_correlation, month, day, rows) ==
    IF ys = <<>> THEN rows
    ELSE LET year == Head(ys)
             c    == calculate_ytd_correlation(d, reference_year, year, month, day)
         IN  YearRowsFrom(d, Tail(ys), reference_year, min_correlation, month, day,
                 IF ~SkipsYear(year, reference_year) /\ Keeps(c, min_correlation)
                 THEN Append(rows, YearRow(d, year, c, "none", month, day))
                 ELSE rows)

\* find_similar_years up to its loop's end.
find_similar_years(d, reference_year, min_correlation, month, day) ==
    YearRowsFrom(d, Years(d), reference_year, min_correlation, month, day, <<>>)

\* The rows find_similar_quarters collects in its loops when nothing raises.
RECURSIVE QuarterRowsFrom(_, _, _, _, _, _)
QuarterRowsFrom(d, keys, reference_year, reference_quarter, min_correlation, rows) ==
    IF keys = <<>> THEN rows
    ELSE LET key == Head(keys)
             c   == calculate_quarterly_correlation(d, reference_year, reference_quarter,
                                                    key.year, key.quarter)
         IN  QuarterRowsFrom(d, Tail(keys), reference_year, reference_quarter, min_correlation,
                 IF /\ ~SkipsQuarter(key.year, key.quarter, reference_year, reference_quarter)
                    /\ Keeps(c, min_correlation)
                 THEN Append(rows, QuarterRow(d, key.year, key.quarter, c, "none"))
                 ELSE rows)

\* find_similar_quarters with a slip: the filter reads the threshold from
\* Config, as the truncation reads its length, not from the argument.
find_similar_quarters_config(d, reference_year, reference_quarter, min_correlation) ==
    QuarterRowsFrom(d, QuarterKeys(Years(d)), reference_year, reference_quarter,
                    Config.MIN_CORRELATION, <<>>)

\* find_similar_quarters up to its loops' end.
find_similar_quarters(d, reference_year, reference_quarter, min_correlation) ==
    QuarterRowsFrom(d, QuarterKeys(Years(d)), reference_year, reference_quarter,
                    min_correlation, <<>>)

\* The lines after the loops: what the call may return for the rows collected.
Returned(rows, top_n) == IF rows # <<>> THEN SortHead(rows, top_n) ELSE {<<>>}

\* The tables the long-lived matcher is built on.
CallFrames(today) ==
    {Frame(RawSeries(sc, today)) :
        sc \in {x \in Scenarios : x.first = StartYear /\ x.defect \in {"none", "flat"}}}

\* Arguments of the calls.
CallYears == {LastYear - 1, LastYear}

CallQuarters == {1, 2}

CallMinCorrelation == {0 - 100, 50}

\* The coefficients of a returned list, in its order.
Coefficients(result) == [i \in 1..Len(result) |-> result[i].correlation]

\* What is kept of a call that returned: its arguments, what it read from the
\* clock and from Config, the rows it collected and the coefficients of the
\* list it returned (they are the same for every order the sort may give to
\* rows with equal coefficients).
CallRecord(fn, reference_year, reference_quarter, min_correlation, rows) ==
    [fn |-> fn, reference_year |-> reference_year, reference_quarter |-> reference_quarter,
     min_correlation |-> min_correlation, top_n |-> Config.TOP_N_SIMILAR,
     date |-> now, config |-> Config, rows |-> rows,
     coefficients |->
        Coefficients(CHOOSE result \in Returned(rows, Config.TOP_N_SIMILAR) : TRUE)]

InitCalls == Init

\* A caller builds a matcher and keeps it: matcher = PatternMatcher(data).
CallsConstruct ==
    /\ pc = "idle"
    /\ calls = <<>>
    /\ \E d \in CallFrames(now) : data' = d
    /\ caller' = "host"
    /\ pc' = "ready"
    /\ UNCHANGED <<now, Config, args, idx, corr, correlations, similar_years,
                   similar_quarters, raised, calls, runs, reads>>

\* The clock advances while the matcher lives.
CallsTick ==
    /\ pc = "ready"
    /\ \E k \in 1..(Len(ClockDates) - 1) :
        /\ now = ClockDates[k]
        /\ now' = ClockDates[k + 1]
    /\ UNCHANGED <<Config, pc, caller, data, args, idx, corr, correlations,
                   similar_years, similar_quarters, raised, calls, runs, reads>>

\* Between the calls, a run of main() writes Config:
\* Config.MIN_CORRELATION = min_correlation; Config.TOP_N_SIMILAR = top_n
CallsConfigWrite ==
    /\ pc = "ready"
    /\ Len(calls) = 1
    /\ \E mc \in SliderMinCorrelation, n \in SliderTopN :
        Config' = [Config EXCEPT !.MIN_CORRELATION = mc, !.TOP_N_SIMILAR = n]
    /\ Config' # Config
    /\ UNCHANGED <<now, pc, caller, data, args, idx, corr, correlations,
                   similar_years, similar_quarters, raised, calls, runs, reads>>

\* matcher.find_similar_years(reference_year, min_correlation), to its return.
CallYearsWith(reference_year, min_correlation) ==
    LET rows == find_similar_years(data, reference_year, min_correlation, now.month, now.day)
    IN  calls' = Append(calls, CallRecord("years", reference_year, 0, min_correlation, rows))

\* matcher.find_similar_quarters(reference_year, reference_quarter,
\* min_correlation), to its return.
CallQuartersWith(reference_year, reference_quarter, min_correlation) ==
    LET rows == find_similar_quarters(data, reference_year, reference_quarter, min_correlation)
    IN  calls' = Append(calls, CallRecord("quarters", reference_year, reference_quarter,
                                         min_correlation, rows))

\* The first call of find_similar_years.
CallsFindSimilarYears ==
    /\ pc = "ready"
    /\ calls = <<>>
    /\ \E y \in CallYears, mc \in CallMinCorrelation : CallYearsWith(y, mc)
    /\ UNCHANGED <<now, Config, pc, caller, data, args, idx, corr, correlations,
                   similar_years, similar_quarters, raised, runs, reads>>

\* The first call of find_similar_quarters.
CallsFindSimilarQuarters ==
    /\ pc = "ready"
    /\ calls = <<>>
    /\ \E y \in CallYears, q \in CallQuarters, mc \in CallMinCorrelation :
        CallQuartersWith(y, q, mc)
    /\ UNCHANGED <<now, Config, pc, caller, data, args, idx, corr, correlations,
                   similar_years, similar_quarters, raised, runs, reads>>

\* The same method is called again with the arguments of the first call.
CallsRepeat ==
    /\ pc = "ready"
    /\ Len(calls) = 1
    /\ LET first == calls[1]
       IN  IF first.fn = "years"
           THEN CallYearsWith(first.reference_year, first.min_correlation)
           ELSE CallQuartersWith(first.reference_year, first.reference_quarter,
                                 first.min_correlation)
    /\ UNCHANGED <<now, Config, pc, caller, data, args, idx, corr, correlations,
                   similar_years, similar_quarters, raised, runs, reads>>

\* The caller drops the matcher and its process ends; the module is loaded
\* afresh for the next one.
CallsEnd ==
    /\ pc = "ready"
    /\ Len(calls) = 2
    /\ pc' = "idle"
    /\ caller' = "none"
    /\ data' = EmptyFrame
    /\ calls' = <<>>
    /\ Config' = ConfigDefaults(now)
    /\ UNCHANGED <<now, args, idx, corr, correlations, similar_years, similar_quarters,
                   raised, runs, reads>>

NextCalls ==
    \/ CallsConstruct
    \/ CallsTick
    \/ CallsConfigWrite
    \/ CallsFindSimilarYears
    \/ CallsFindSimilarQuarters
    \/ CallsRepeat
    \/ CallsEnd

SpecCalls == InitCalls /\ [][NextCalls]_vars

\* ----------------------------------- two runs of main() on one Config
\* Two sessions run main() on the same loaded module: each has its own
\* locals, both write and read the attributes of the one class Config.
Runs == {1, 2}

\* The sliders' values a session may hold (min_correlation, top_n).
RunSliders == {[min_correlation |-> 50, top_n |-> 3], [min_correlation |-> 95, top_n |-> 5]}

\* The table fetch_data's cache serves to both runs.
RunFrames(today) ==
    {Frame(RawSeries(sc, today)) :
        sc \in {x \in Scenarios : x.first = StartYear /\ x.defect = "none"}}

NoAnswer == [min_correlation |-> 0, rows |-> <<>>, top_n |-> 0, coefficients |-> <<>>]

IdleRun == [pc |-> "idle", min_correlation |-> 0, top_n |-> 0,
            years |-> NoAnswer, quarters |-> NoAnswer]

InitRuns ==
    /\ now = ClockDates[1]
    /\ Config = ConfigDefaults(ClockDates[1])
    /\ pc = "idle"
    /\ caller = "main"
    /\ data = EmptyFrame
    /\ args = NoArgs
    /\ idx = 0
    /\ corr = NoCorr
    /\ correlations = <<>>
    /\ similar_years = Unset
    /\ similar_quarters = Unset
    /\ raised = "none"
    /\ calls = <<>>
    /\ runs = [r \in Runs |-> IdleRun]
    /\ reads = <<>>

\* fetch_data downloads the table and caches it (st.cache_data).
RunsLoad ==
    /\ data = EmptyFrame
    /\ \E d \in RunFrames(now) : data' = d
    /\ UNCHANGED <<now, Config, pc, caller, args, idx, corr, correlations, similar_years,
                   similar_quarters, raised, calls, runs, reads>>

\* main: the sliders give this session's min_correlation and top_n.
RunStart(r) ==
    /\ data # EmptyFrame
    /\ runs[r].pc = "idle"
    /\ \E sl \in RunSliders :
        runs' = [runs EXCEPT ![r] = [IdleRun EXCEPT !.pc = "write_min",
                                                   !.min_correlation = sl.min_correlation,
                                                   !.top_n = sl.top_n]]
    /\ UNCHANGED <<now, Config, pc, caller, data, args, idx, corr, correlations,
                   similar_years, similar_quarters, raised, calls, reads>>

\* main: Config.MIN_CORRELATION = min_correlation
RunWriteMin(r) ==
    /\ runs[r].pc = "write_min"
    /\ Config' = [Config EXCEPT !.MIN_CORRELATION = runs[r].min_correlation]
    /\ runs' = [runs EXCEPT ![r].pc = "write_top"]
    /\ UNCHANGED <<now, pc, caller, data, args, idx, corr, correlations,
                   similar_years, similar_quarters, raised, calls, reads>>

\* main: Config.TOP_N_SIMILAR = top_n
RunWriteTop(r) ==
    /\ runs[r].pc = "write_top"
    /\ Config' = [Config EXCEPT !.TOP_N_SIMILAR = runs[r].top_n]
    /\ runs' = [runs EXCEPT ![r].pc = "call_years"]
    /\ UNCHANGED <<now, pc, caller, data, args, idx, corr, correlations,
                   similar_years, similar_quarters, raised, calls, reads>>

\* main: the table comes from the cache, the matcher is built, and
\* matcher.find_similar_years(Config.CURRENT_YEAR, Config.MIN_CORRELATION)
\* is entered and runs its loop.
RunCallYears(r) ==
    /\ runs[r].pc = "call_years"
    /\ LET mc   == Config.MIN_CORRELATION
           rows == find_similar_years(data, Config.CURRENT_YEAR, mc, now.month, now.day)
       IN  runs' = [runs EXCEPT ![r].pc = "years",
                                ![r].years = [NoAnswer EXCEPT !.min_correlation = mc,
                                                              !.rows = rows]]
    /\ UNCHANGED <<now, Config, pc, caller, data, args, idx, corr, correlations,
                   similar_years, similar_quarters, raised, calls, reads>>

\* What the lines after the loop make of an answer: they read
\* Config.TOP_N_SIMILAR, sort and truncate.
Truncated(answer) ==
    [answer EXCEPT !.top_n = Config.TOP_N_SIMILAR,
                   !.coefficients =
                       Coefficients(CHOOSE result \in Returned(answer.rows,
                                                               Config.TOP_N_SIMILAR) : TRUE)]

\* find_similar_years returns.
RunYearsReturn(r) ==
    /\ runs[r].pc = "years"
    /\ runs' = [runs EXCEPT ![r].pc = "call_quarters",
                            ![r].years = Truncated(runs[r].years)]
    /\ UNCHANGED <<now, Config, pc, caller, data, args, idx, corr, correlations,
                   similar_years, similar_quarters, raised, calls, reads>>

\* main: matcher.find_similar_quarters(Config.CURRENT_YEAR, current_quarter,
\* Config.MIN_CORRELATION) is entered and runs its loops.
RunCallQuarters(r) ==
    /\ runs[r].pc = "call_quarters"
    /\ LET mc   == Config.MIN_CORRELATION
           rows == find_similar_quarters(data, Config.CURRENT_YEAR, QuarterOf(now.month), mc)
       IN  runs' = [runs EXCEPT ![r].pc = "quarters",
                                ![r].quarters = [NoAnswer EXCEPT !.min_correlation = mc,
                                                                 !.rows = rows]]
    /\ UNCHANGED <<now, Config, pc, caller, data, args, idx, corr, correlations,
                   similar_years, similar_quarters, raised, calls, reads>>

\* find_similar_quarters returns.
RunQuartersReturn(r) ==
    /\ runs[r].pc = "quarters"
    /\ runs' = [runs EXCEPT ![r].pc = "done",
                            ![r].quarters = Truncated(runs[r].quarters)]
    /\ UNCHANGED <<now, Config, pc, caller, data, args, idx, corr, correlations,
                   similar_years, similar_quarters, raised, calls, reads>>

\* main returns; the session may run it again.
RunFinish(r) ==
    /\ runs[r].pc = "done"
    /\ runs' = [runs EXCEPT ![r] = IdleRun]
    /\ UNCHANGED <<now, Config, pc, caller, data, args, idx, corr, correlations,
                   similar_years, similar_quarters, raised, calls, reads>>

NextRuns ==
    \/ RunsLoad
    \/ \E r \in Runs : RunStart(r)
    \/ \E r \in Runs : RunWriteMin(r)
    \/ \E r \in Runs : RunWriteTop(r)
    \/ \E r \in Runs : RunCallYears(r)
    \/ \E r \in Runs : RunYearsReturn(r)
    \/ \E r \in Runs : RunCallQuarters(r)
    \/ \E r \in Runs : RunQuartersReturn(r)
    \/ \E r \in Runs : RunFinish(r)

SpecRuns == InitRuns /\ [][NextRuns]_vars

\* ------------------------- find_similar_years, one clock read at a time
\* The dates the clock shows while one year scan runs: the scan starts on the
\* last day of May and the clock goes past midnight.
ScanClockDates ==
    << [year |-> LastYear, month |-> 5, day |-> 31],
       [year |-> LastYear, month |-> 6, day |-> 1],
       [year |-> LastYear, month |-> 6, day |-> 8] >>

ScanFrames(today) ==
    {Frame(RawSeries(sc, today)) :
        sc \in {x \in Scenarios : x.first = StartYear /\ x.defect = "none"}}

ScanMinCorrelation == {0 - 100, 50}

\* What a call of datetime.now() has not given yet.
NotRead == 0

\* The clock reads made for one candidate: end_month and end_day of
\* calculate_ytd_correlation, then the two arguments of _get_ytd_return.
NoReads(year) ==
    [year |-> year, end_month |-> NotRead, end_day |-> NotRead,
     ret_month |-> NotRead, ret_day |-> NotRead]

\* The reads made for the candidate in hand.
Last(s) == s[Len(s)]

InitScan ==
    /\ now = ScanClockDates[1]
    /\ Config = ConfigDefaults(ScanClockDates[1])
    /\ pc = "idle"
    /\ caller = "none"
    /\ data = EmptyFrame
    /\ args = NoArgs
    /\ idx = 0
    /\ corr = NoCorr
    /\ correlations = <<>>
    /\ similar_years = Unset
    /\ similar_quarters = Unset
    /\ raised = "none"
    /\ calls = <<>>
    /\ runs = <<>>
    /\ reads = <<>>

\* Time passes, whatever the scan is doing.
ScanTick ==
    /\ \E k \in 1..(Len(ScanClockDates) - 1) :
        /\ now = ScanClockDates[k]
        /\ now' = ScanClockDates[k + 1]
    /\ UNCHANGED <<Config, pc, caller, data, args, idx, corr, correlations,
                   similar_years, similar_quarters, raised, calls, runs, reads>>

\* A matcher is built on a table fetched now and find_similar_years is
\* entered for the current year.
ScanStart ==
    /\ pc = "idle"
    /\ data = EmptyFrame
    /\ \E d \in ScanFrames(now), mc \in ScanMinCorrelation :
        /\ data' = d
        /\ args' = [fn |-> "years", reference_year |-> Config.CURRENT_YEAR,
                    reference_quarter |-> 0, min_correlation |-> mc, years |-> Years(d)]
    /\ caller' = "host"
    /\ idx' = 1
    /\ corr' = NoCorr
    /\ correlations' = <<>>
    /\ reads' = <<>>
    /\ pc' = "loop"
    /\ UNCHANGED <<now, Config, similar_years, similar_quarters, raised, calls, runs>>

\* `for year in years`: the reference year is skipped, any other year enters
\* calculate_ytd_correlation.
ScanLoop ==
    /\ pc = "loop"
    /\ idx <= Len(args.years)
    /\ IF SkipsYear(args.years[idx], args.reference_year)
       THEN /\ idx' = idx + 1
            /\ UNCHANGED <<pc, reads>>
       ELSE /\ pc' = "end_month"
            /\ reads' = Append(reads, NoReads(args.years[idx]))
            /\ UNCHANGED idx
    /\ UNCHANGED <<now, Config, caller, data, args, corr, correlations, similar_years,
                   similar_quarters, raised, calls, runs>>

\* end_month = datetime.now().month
ScanReadEndMonth ==
    /\ pc = "end_month"
    /\ reads' = [reads EXCEPT ![Len(reads)].end_month = now.month]
    /\ pc' = "end_day"
    /\ UNCHANGED <<now, Config, caller, data, args, idx, corr, correlations, similar_years,
                   similar_quarters, raised, calls, runs>>

\* end_day = datetime.now().day, then the try block and the filter of the
\* caller: a candidate that is not kept ends the iteration.
ScanReadEndDay ==
    /\ pc = "end_day"
    /\ LET year == args.years[idx]
           c    == calculate_ytd_correlation(data, args.reference_year, year,
                                             Last(reads).end_month, now.day)
       IN  /\ corr' = [year |-> year, quarter |-> 0, value |-> c, fault |-> "none"]
           /\ IF Keeps(c, args.min_correlation)
              THEN /\ pc' = "ret_month"
                   /\ UNCHANGED idx
              ELSE /\ pc' = "loop"
                   /\ idx' = idx + 1
    /\ reads' = [reads EXCEPT ![Len(reads)].end_day = now.day]
    /\ UNCHANGED <<now, Config, caller, data, args, correlations, similar_years,
                   similar_quarters, raised, calls, runs>>

\* The first argument of self._get_ytd_return(year, datetime.now().month, ...)
ScanReadReturnMonth ==
    /\ pc = "ret_month"
    /\ reads' = [reads EXCEPT ![Len(reads)].ret_month = now.month]
    /\ pc' = "ret_day"
    /\ UNCHANGED <<now, Config, caller, data, args, idx, corr, correlations, similar_years,
                   similar_quarters, raised, calls, runs>>

\* The second argument, datetime.now().day, then _get_ytd_return and
\* correlations.append.
ScanReadReturnDay ==
    /\ pc = "ret_day"
    /\ reads' = [reads EXCEPT ![Len(reads)].ret_day = now.day]
    /\ correlations' =
            Append(correlations,
                   YearRow(data, args.years[idx], corr.value, "none",
                           Last(reads).ret_month, now.day))
    /\ idx' = idx + 1
    /\ pc' = "loop"
    /\ UNCHANGED <<now, Config, caller, data, args, corr, similar_years,
                   similar_quarters, raised, calls, runs>>

\* The lines after the loop.
ScanReturn ==
    /\ pc = "loop"
    /\ idx > Len(args.years)
    /\ \E result \in Returned(correlations, Config.TOP_N_SIMILAR) : similar_years' = result
    /\ pc' = "years_done"
    /\ UNCHANGED <<now, Config, caller, data, args, idx, corr, correlations,
                   similar_quarters, raised, calls, runs, reads>>

NextScan ==
    \/ ScanTick
    \/ ScanStart
    \/ ScanLoop
    \/ ScanReadEndMonth
    \/ ScanReadEndDay
    \/ ScanReadReturnMonth
    \/ ScanReadReturnDay
    \/ ScanReturn

SpecScan == InitScan /\ [][NextScan]_vars

\* ------------------------------------------ the correlation functions
\* The two correlation functions, called on pairs of periods of a table.
PairFirstYears == {LastYear - 1, LastYear}

PairFirstQuarters == {1, 2}

\* cum_returns1 and cum_returns2 of a correlation function, when it gets as
\* far as computing them.
CumReturnsPair(data1, data2, min_periods) ==
    LET min_len == Min(Len(data1), Len(data2))
    IN  IF Len(data1) < min_periods \/ Len(data2) < min_periods THEN <<>>
        ELSE <<CumReturns(data1, min_len), CumReturns(data2, min_len)>>

InitPairs == Init

\* A matcher is built on a table fetched now.
PairsConstruct ==
    /\ pc = "idle"
    /\ \E d \in Frames(now) \ {EmptyFrame} : data' = d
    /\ pc' = "ready"
    /\ UNCHANGED <<now, Config, caller, args, idx, corr, correlations, similar_years,
                   similar_quarters, raised, calls, runs, reads>>

\* The clock advances between two matchers.
PairsTick ==
    /\ pc = "idle"
    /\ \E k \in 1..(Len(ClockDates) - 1) :
        /\ now = ClockDates[k]
        /\ now' = ClockDates[k + 1]
    /\ UNCHANGED <<Config, pc, caller, data, args, idx, corr, correlations,
                   similar_years, similar_quarters, raised, calls, runs, reads>>

\* matcher.calculate_ytd_correlation(year1, year2)
PairsYtdCorrelation ==
    /\ pc = "ready"
    /\ calls = <<>>
    /\ \E year1 \in PairFirstYears, i \in 1..Len(Years(data)) :
        LET year2 == Years(data)[i]
        IN  calls' =
              << [fn |-> "ytd", year1 |-> year1, q1 |-> 0, year2 |-> year2, q2 |-> 0,
                  cum_returns |->
                      CumReturnsPair(YtdData(data, year1, now.month, now.day),
                                     YtdData(data, year2, now.month, now.day), MinYtdLen),
                  value |-> calculate_ytd_correlation(data, year1, year2,
                                                      now.month, now.day)] >>
    /\ UNCHANGED <<now, Config, pc, caller, data, args, idx, corr, correlations,
                   similar_years, similar_quarters, raised, runs, reads>>

\* matcher.calculate_quarterly_correlation(year1, q1, year2, q2)
PairsQuarterlyCorrelation ==
    /\ pc = "ready"
    /\ calls = <<>>
    /\ \E year1 \in PairFirstYears, q1 \in PairFirstQuarters,
          i \in 1..Len(Years(data)), q2 \in 1..4 :
        LET year2 == Years(data)[i]
        IN  calls' =
              << [fn |-> "quarterly", year1 |-> year1, q1 |-> q1, year2 |-> year2, q2 |-> q2,
                  cum_returns |->
                      CumReturnsPair(get_quarter_data(data, year1, q1),
                                     get_quarter_data(data, year2, q2), MinQuarterLen),
                  value |-> calculate_quarterly_correlation(data, year1, q1, year2, q2)] >>
    /\ UNCHANGED <<now, Config, pc, caller, data, args, idx, corr, correlations,
                   similar_years, similar_quarters, raised, runs, reads>>

\* The matcher is dropped.
PairsEnd ==
    /\ pc = "ready"
    /\ calls # <<>>
    /\ pc' = "idle"
    /\ data' = EmptyFrame
    /\ calls' = <<>>
    /\ UNCHANGED <<now, Config, caller, args, idx, corr, correlations, similar_years,
                   similar_quarters, raised, runs, reads>>

NextPairs ==
    \/ PairsConstruct
    \/ PairsTick
    \/ PairsYtdCorrelation
    \/ PairsQuarterlyCorrelation
    \/ PairsEnd

SpecPairs == InitPairs /\ [][NextPairs]_vars

\* ------------------------------------- main up to the matcher, by steps
\* The default main gives api_key when st.secrets has no "EODHD_API_KEY".
Placeholder ==
    <<"Y", "O", "U", "R", "_", "A", "P", "I", "_", "K", "E", "Y", "_", "H", "E", "R", "E">>

\* The prefix of the key of the secrets template.
TemplatePrefix == <<"l", "a", "-", "t", "u">>

\* str.startswith
startswith(s, prefix) ==
    /\ Len(s) >= Len(prefix)
    /\ SubSeq(s, 1, Len(prefix)) = prefix

\* The values st.secrets may hold under "EODHD_API_KEY".
SecretValues == {<<>>, TemplatePrefix \o <<"a">>, <<"k", "e", "y">>}

\* fetch_data's first condition: the primary provider is asked.
Configured(api_key) ==
    /\ api_key # <<>>
    /\ api_key # Placeholder
    /\ ~startswith(api_key, TemplatePrefix)

\* What a provider does with a request.
ProviderOutcomes == {"raises", "no_rows", "rows"}

\* The rows a provider may send on `today`: a whole series, or one row only.
ProviderRows(today) ==
    {RawSeries(sc, today) : sc \in Scenarios}
        \cup {SubSeq(RawSeries(sc, today), 1, 1) : sc \in Scenarios}

FetchRecord(api_key) ==
    [fn |-> "fetch_data", api_key |-> api_key, primary |-> "untried", secondary |-> "untried"]

InitFetch == Init

FetchTick ==
    /\ Tick

\* main, to the end of the sidebar: the key is read from the secrets (any
\* failure gives the placeholder) and the sliders are written to Config.
FetchMainSecrets ==
    /\ pc = "idle"
    /\ calls = <<>>
    /\ \E api_key \in SecretValues \cup {Placeholder} :
        calls' = <<FetchRecord(api_key)>>
    /\ \E mc \in SliderMinCorrelation, n \in SliderTopN :
        Config' = [ConfigDefaults(now) EXCEPT !.MIN_CORRELATION = mc, !.TOP_N_SIMILAR = n]
    /\ caller' = "main"
    /\ pc' = "fetch"
    /\ UNCHANGED <<now, data, args, idx, corr, correlations, similar_years,
                   similar_quarters, raised, runs, reads>>

\* fetch_data, the primary provider: a non-empty list is returned as a
\* table; anything else, an exception included, goes on to the fallback.
FetchPrimary ==
    /\ pc = "fetch"
    /\ Configured(calls[1].api_key)
    /\ \E outcome \in ProviderOutcomes :
        /\ calls' = <<[calls[1] EXCEPT !.primary = outcome]>>
        /\ IF outcome = "rows"
           THEN /\ \E raw \in ProviderRows(now) : data' = Frame(raw)
                /\ pc' = "fetched"
           ELSE /\ data' = data
                /\ pc' = "fallback"
    /\ UNCHANGED <<now, Config, caller, args, idx, corr, correlations, similar_years,
                   similar_quarters, raised, runs, reads>>

\* fetch_data with no usable key: the primary provider is not asked.
FetchSkipPrimary ==
    /\ pc = "fetch"
    /\ ~Configured(calls[1].api_key)
    /\ pc' = "fallback"
    /\ UNCHANGED <<now, Config, caller, data, args, idx, corr, correlations,
                   similar_years, similar_quarters, raised, calls, runs, reads>>

\* fetch_data, the fallback: a non-empty download is returned as a table, an
\* exception returns pd.DataFrame(), and an empty download leaves the `if`
\* and the `try` with no return statement: the function returns None.
FetchSecondary ==
    /\ pc = "fallback"
    /\ \E outcome \in ProviderOutcomes :
        /\ calls' = <<[calls[1] EXCEPT !.secondary = outcome]>>
        /\ CASE outcome = "rows" -> \E raw \in ProviderRows(now) : data' = Frame(raw)
             [] outcome = "raises" -> data' = EmptyFrame
             [] outcome = "no_rows" -> data' = None
    /\ pc' = "fetched"
    /\ UNCHANGED <<now, Config, caller, args, idx, corr, correlations, similar_years,
                   similar_quarters, raised, runs, reads>>

\* main: `if data.empty:` st.error and return; None has no attribute `empty`.
FetchMainCheck ==
    /\ pc = "fetched"
    /\ pc' = IF data = None THEN "unhandled"
             ELSE IF data = EmptyFrame THEN "end" ELSE "construct"
    /\ UNCHANGED <<now, Config, caller, data, args, idx, corr, correlations,
                   similar_years, similar_quarters, raised, calls, runs, reads>>

\* main: matcher = PatternMatcher(data)
FetchConstruct ==
    /\ PatternMatcherInit

FetchEnd ==
    /\ pc \in {"end", "unhandled", "ready"}
    /\ pc' = "idle"
    /\ caller' = "none"
    /\ data' = EmptyFrame
    /\ raised' = "none"
    /\ calls' = <<>>
    /\ UNCHANGED <<now, Config, args, idx, corr, correlations, similar_years,
                   similar_quarters, runs, reads>>

NextFetch ==
    \/ FetchTick
    \/ FetchMainSecrets
    \/ FetchPrimary
    \/ FetchSkipPrimary
    \/ FetchSecondary
    \/ FetchMainCheck
    \/ FetchConstruct
    \/ FetchEnd

SpecFetch == InitFetch /\ [][NextFetch]_vars

\* ------------------------------------------------------------- claims
\* A find_similar_* call has returned; Result is what it returned, and
\* correlations still holds the rows it had collected.
Done == pc \in {"years_done", "quarters_done"}

Scanning == pc \in {"years", "quarters"}

Result == IF pc = "years_done" THEN similar_years ELSE similar_quarters

Rows(s) == {s[i] : i \in 1..Len(s)}

\* The key of a row, with quarter 0 for a row of the year scan.
KeyOf(row) ==
    [year |-> row.year, quarter |-> IF args.fn = "years" THEN 0 ELSE row.quarter]

ReferenceKey ==
    [year |-> args.reference_year,
     quarter |-> IF args.fn = "years" THEN 0 ELSE args.reference_quarter]

\* The keys the scan in progress enumerates.
ScanKeys ==
    IF args.fn = "years"
    THEN {[year |-> args.years[i], quarter |-> 0] : i \in 1..Len(args.years)}
    ELSE Rows(QuarterKeys(args.years))

\* The extract of a period as the scan in progress takes it.
Extract(key) ==
    IF args.fn = "years" THEN YtdData(data, key.year, now.month, now.day)
    ELSE get_quarter_data(data, key.year, key.quarter)

MinLen == IF args.fn = "years" THEN MinYtdLen ELSE MinQuarterLen

\* The first n observations of an extract do not all have the same price.
PriceVaries(rows, n) ==
    \E i \in 1..n : rows[i].adjusted_close # rows[1].adjusted_close

\* The coefficient of the reference period and a period, computed afresh.
Coefficient(key) ==
    IF args.fn = "years"
    THEN calculate_ytd_correlation(data, args.reference_year, key.year, now.month, now.day)
    ELSE calculate_quarterly_correlation(data, args.reference_year, args.reference_quarter,
                                         key.year, key.quarter)

\* C1: every row a scan collects or returns has a defined coefficient that is
\* at least min_correlation; the filter acts on each candidate before the
\* sort and the truncation.
C1_ThresholdRespected ==
    /\ (Scanning \/ Done) =>
        \A row \in Rows(correlations) :
            ~row.correlation.nan /\ CorrGeq(row.correlation, args.min_correlation)
    /\ Done =>
        \A row \in Rows(Result) :
            ~row.correlation.nan /\ CorrGeq(row.correlation, args.min_correlation)

\* A scan has returned fewer rows than top_n although a candidate with a
\* defined coefficient below the threshold was there to fill the list.
C1_Witness ==
    /\ pc = "years_done"
    /\ Len(similar_years) > 0
    /\ Len(similar_years) < Config.TOP_N_SIMILAR
    /\ \E key \in ScanKeys \ {ReferenceKey} :
        /\ ~Coefficient(key).nan
        /\ ~CorrGeq(Coefficient(key), args.min_correlation)

\* C2: the returned rows are in non-increasing order of coefficient, and no
\* row dropped by the truncation has a strictly higher coefficient than a
\* row that was kept.
C2_SortedTopN ==
    Done =>
        /\ \A i \in 1..(Len(Result) - 1) :
            ~CorrLess(Result[i].correlation, Result[i + 1].correlation)
        /\ Rows(Result) \subseteq Rows(correlations)
        /\ \A kept \in Rows(Result) : \A dropped \in Rows(correlations) \ Rows(Result) :
            ~CorrLess(kept.correlation, dropped.correlation)

\* The year scan collected more rows than top_n, out of order, and returned
\* rows with different coefficients.
C2_Witness ==
    /\ pc = "years_done"
    /\ Len(correlations) > Len(similar_years)
    /\ \E i \in 1..(Len(correlations) - 1) :
        CorrLess(correlations[i].correlation, correlations[i + 1].correlation)
    /\ \E i \in 1..(Len(similar_years) - 1) :
        CorrLess(similar_years[i + 1].correlation, similar_years[i].correlation)

\* C3: a returned list is no longer than Config.TOP_N_SIMILAR (in main, the
\* slider's value) and no longer than the number of eligible candidates.
C3_LengthBounded ==
    /\ Done =>
        /\ Len(Result) <= Config.TOP_N_SIMILAR
        /\ Len(Result) <= Cardinality(ScanKeys \ {ReferenceKey})
    /\ (caller = "main" /\ pc = "quarters_done") =>
        /\ Len(similar_years) <= Config.TOP_N_SIMILAR
        /\ Len(similar_quarters) <= Config.TOP_N_SIMILAR

\* main ran both scans with the slider at 3 and each returned 3 rows, the
\* quarter scan having collected more.
C3_Witness ==
    /\ caller = "main"
    /\ pc = "quarters_done"
    /\ Config.TOP_N_SIMILAR = 3
    /\ Len(similar_years) = 3
    /\ Len(similar_quarters) = 3
    /\ Len(correlations) > 3

\* The candidate last handled, as a key of the scan in progress.
LastKey == [year |-> corr.year, quarter |-> corr.quarter]

\* The candidate the loops have just gone past.
PassedKey ==
    IF args.fn = "years" THEN [year |-> args.years[idx - 1], quarter |-> 0]
    ELSE QuarterKeys(args.years)[idx - 1]

\* C4: the reference period is in no row collected or returned, the rows of
\* one result have pairwise distinct periods (year, year_quarter), and every
\* other period the loops go past (the other quarters of the reference year
\* and the same quarter of other years among them) is evaluated, and collected
\* when its coefficient passes the filter.
C4_ReferenceExcluded ==
    /\ (Scanning \/ Done) =>
        /\ \A row \in Rows(correlations) : KeyOf(row) # ReferenceKey
        /\ \A i, j \in 1..Len(correlations) :
            i # j => KeyOf(correlations[i]) # KeyOf(correlations[j])
    /\ pc = "years_done" =>
        \A i, j \in 1..Len(similar_years) :
            i # j => similar_years[i].year # similar_years[j].year
    /\ pc = "quarters_done" =>
        \A i, j \in 1..Len(similar_quarters) :
            i # j => similar_quarters[i].year_quarter # similar_quarters[j].year_quarter
    /\ Done => \A row \in Rows(Result) : KeyOf(row) # ReferenceKey
    /\ ((Scanning \/ Done) /\ idx > 1 /\ PassedKey # ReferenceKey) =>
        /\ LastKey = PassedKey
        /\ (corr.fault = "none" /\ Keeps(corr.value, args.min_correlation))
            => \E row \in Rows(correlations) : KeyOf(row) = PassedKey

\* A quarter scan returned another quarter of the reference year and the
\* reference quarter of another year.
C4_Witness ==
    /\ pc = "quarters_done"
    /\ \E row \in Rows(similar_quarters) :
        row.year = args.reference_year /\ row.quarter # args.reference_quarter
    /\ \E row \in Rows(similar_quarters) :
        row.year # args.reference_year /\ row.quarter = args.reference_quarter

\* C5: a period whose extract has fewer than 20 (year scan) or 15 (quarter
\* scan) observations is in no row collected or returned, whatever the
\* threshold.
C5_ShortPeriodExcluded ==
    /\ (Scanning \/ Done) =>
        \A row \in Rows(correlations) :
            Len(Extract(KeyOf(row))) >= (IF args.fn = "years" THEN 20 ELSE 15)
    /\ Done =>
        \A row \in Rows(Result) :
            Len(Extract(KeyOf(row))) >= (IF args.fn = "years" THEN 20 ELSE 15)

\* A year scan with a threshold of -1 returned rows and left out a year that
\* has 19 year-to-date observations.
C5_Witness ==
    /\ pc = "years_done"
    /\ args.min_correlation < 0
    /\ Len(similar_years) > 0
    /\ \E key \in ScanKeys \ {ReferenceKey} :
        /\ Len(Extract(key)) = 19
        /\ \A row \in Rows(similar_years) : row.year # key.year

\* C6: when the reference period has too few observations (or none: the year
\* is absent, the quarter is not one of 1..4) the scan collects nothing,
\* returns an empty list and raises nothing.
C6_ShortReferenceEmpty ==
    ((Scanning \/ Done)
        /\ (Len(Extract(ReferenceKey)) < (IF args.fn = "years" THEN 20 ELSE 15)
            \/ (args.fn = "quarters" /\ args.reference_quarter \notin 1..4))) =>
        /\ correlations = <<>>
        /\ raised = "none"
        /\ Done => Result = <<>>

\* A quarter scan for a quarter number outside 1..4 returned an empty list
\* over a series that holds a full quarter of varying prices.
C6_Witness ==
    /\ pc = "quarters_done"
    /\ args.reference_quarter \notin 1..4
    /\ similar_quarters = <<>>
    /\ \E key \in ScanKeys :
        /\ Len(Extract(key)) >= 15
        /\ PriceVaries(Extract(key), Len(Extract(key)))

\* The coefficient of a period and the reference period, arguments swapped.
Swapped(key) ==
    IF args.fn = "years"
    THEN calculate_ytd_correlation(data, key.year, args.reference_year, now.month, now.day)
    ELSE calculate_quarterly_correlation(data, key.year, key.quarter,
                                         args.reference_year, args.reference_quarter)

\* The coefficient of a period with itself.
SelfCoefficient(key) ==
    IF args.fn = "years"
    THEN calculate_ytd_correlation(data, key.year, key.year, now.month, now.day)
    ELSE calculate_quarterly_correlation(data, key.year, key.quarter, key.year, key.quarter)

\* A candidate was handled and no exception was injected while it was.
Handled == (Scanning \/ Done) /\ corr.year # 0 /\ corr.fault = "none"

\* C7: the coefficient the scan computed for (reference, candidate) is the one
\* the same function gives for (candidate, reference), defined or not; and a
\* candidate of sufficient length whose price varies has coefficient 1 with
\* itself.
C7_SymmetricReflexive ==
    Handled =>
        LET rows == Extract(LastKey)
        IN  /\ corr.value = Swapped(LastKey)
            /\ (Len(rows) >= MinLen /\ PriceVaries(rows, Len(rows)))
                => SelfCoefficient(LastKey) = CorrOne

\* The scan computed a defined coefficient other than 1 for two extracts of
\* different lengths.
C7_Witness ==
    /\ Handled
    /\ ~corr.value.nan
    /\ corr.value # CorrOne
    /\ Len(Extract(LastKey)) # Len(Extract(ReferenceKey))

\* The cumulative-return path of the first n observations is constant.
ZeroVariance(rows, n) ==
    LET c == CumReturns(rows, n)
    IN  \A i \in 1..n : c[i] = c[1]

\* The number of positions the two extracts are compared on.
PairedLen(key) == Min(Len(Extract(ReferenceKey)), Len(Extract(key)))

C9_Contained ==
    /\ (Scanning \/ Done) => raised = "none"
    /\ ((Scanning \/ Done) /\ corr.fault = "corr") =>
        /\ corr.value.nan
        /\ \A row \in Rows(correlations) : KeyOf(row) # LastKey
    /\ ((Scanning \/ Done) /\ corr.fault = "ret") =>
        \E row \in Rows(correlations) :
            /\ KeyOf(row) = LastKey
            /\ IF args.fn = "years" THEN row.ytd_return_at_similar_point.nan
               ELSE row.quarter_return.nan

\* What every step of a scan does: it moves on to the next candidate of the
\* same loop, or, all candidates visited, it returns.
C9_Advances ==
    Scanning =>
        \/ pc' = pc /\ args' = args /\ idx' = idx + 1 /\ raised' = "none"
        \/ idx = Cardinality(ScanKeys) + 1 /\ Done' /\ raised' = "none"

C10_NoException == raised = "none"

\* C10, amended: PatternMatcher.__init__ raises ValueError on an empty
\* series, and only then; no scan runs and no result exists for an empty series.
C10_EmptySeriesRaises ==
    /\ raised \in {"none", "ValueError"}
    /\ raised = "ValueError" <=> (pc = "end" /\ caller = "host" /\ data = EmptyFrame)
    /\ raised = "ValueError" => (similar_years = Unset /\ similar_quarters = Unset)
    /\ (pc = "ready" \/ Scanning \/ Done) => data # EmptyFrame

\* The constructor was given an empty series and raised.
C10_Witness ==
    /\ data = EmptyFrame
    /\ pc = "end"
    /\ raised = "ValueError"

\* Two calls of one method with the same arguments were answered with the
\* same Config.TOP_N_SIMILAR.
SameInputs ==
    /\ Len(calls) = 2
    /\ calls[1].top_n = calls[2].top_n

\* What a call answered, up to the order of rows with equal coefficients.
Answer(call) == [rows |-> call.rows, coefficients |-> call.coefficients]

AloneYears(r) ==
    LET rows == find_similar_years(data, Config.CURRENT_YEAR, runs[r].min_correlation,
                                   now.month, now.day)
    IN  [min_correlation |-> runs[r].min_correlation, rows |-> rows, top_n |-> runs[r].top_n,
         coefficients |->
            Coefficients(CHOOSE result \in Returned(rows, runs[r].top_n) : TRUE)]

AloneQuarters(r) ==
    LET rows == find_similar_quarters(data, Config.CURRENT_YEAR, QuarterOf(now.month),
                                      runs[r].min_correlation)
    IN  [min_correlation |-> runs[r].min_correlation, rows |-> rows, top_n |-> runs[r].top_n,
         coefficients |->
            Coefficients(CHOOSE result \in Returned(rows, runs[r].top_n) : TRUE)]

\* C12: when runs of main() with different settings interleave, each run's
\* results are filtered by its own threshold and truncated to its own top_n,
\* exactly as if it had run alone.
C12_NoInterference ==
    \A r \in Runs :
        runs[r].pc = "done" =>
            /\ runs[r].years = AloneYears(r)
            /\ runs[r].quarters = AloneQuarters(r)

\* The reads of a candidate give a day and a month of one date of the clock.
OneDate(month, day) ==
    \E k \in 1..Len(ScanClockDates) :
        ScanClockDates[k].month = month /\ ScanClockDates[k].day = day

\* C13: within one find_similar_years call every candidate is correlated at
\* the same cutoff, the cutoff's month and day are those of one calendar
\* date, and a kept candidate's year-to-date return is taken at the cutoff
\* of its correlation, also when the clock advances during the scan.
C13_SingleCutoff ==
    \A i \in 1..Len(reads) :
        LET r == reads[i]
        IN  /\ r.end_day # NotRead =>
                /\ OneDate(r.end_month, r.end_day)
                /\ r.end_month = reads[1].end_month
                /\ r.end_day = reads[1].end_day
            /\ r.ret_day # NotRead =>
                /\ r.ret_month = r.end_month
                /\ r.ret_day = r.end_day

\* The two extracts of the correlation call on record.
PairExtract(side) ==
    LET call == calls[1]
    IN  IF call.fn = "ytd"
        THEN YtdData(data, IF side = 1 THEN call.year1 ELSE call.year2, now.month, now.day)
        ELSE IF side = 1 THEN get_quarter_data(data, call.year1, call.q1)
        ELSE get_quarter_data(data, call.year2, call.q2)

\* A correlation call is on record and it computed its two paths.
Compared == pc = "ready" /\ calls # <<>> /\ calls[1].cum_returns # <<>>

\* price[k] / price[first] - 1 for the first n observations of an extract.
Rebased(rows, n) ==
    [k \in 1..n |->
        Num(Frac(rows[k].adjusted_close - rows[1].adjusted_close, rows[1].adjusted_close))]

\* C14 as stated: each compared path starts at exactly 0 and its element k
\* is price[k] / price[first] - 1.
C14_PathFromZero ==
    Compared =>
        \A side \in {1, 2} :
            LET path == calls[1].cum_returns[side]
            IN  /\ path[1] = Num(Frac(0, 1))
                /\ path = Rebased(PairExtract(side), Len(path))

\* C14, amended: element k of a compared path is
\* (1 + r) * price[k] / price[first] - 1, with r the stored return of the
\* extract's first observation (its first element is r, not 0); the
\* coefficient is nevertheless the coefficient of the two paths rebased to
\* their own first observation.
C14_PathFromFirstReturn ==
    Compared =>
        LET call == calls[1]
            n    == Len(call.cum_returns[1])
        IN  /\ \A side \in {1, 2} :
                LET path == call.cum_returns[side]
                    rows == PairExtract(side)
                IN  /\ Len(path) = Min(Len(PairExtract(1)), Len(PairExtract(2)))
                    /\ path[1] = Num(rows[1].returns)
                    /\ \A k \in 1..Len(path) :
                        path[k] =
                            Num(FracAddInt(
                                    FracMul(FracAddInt(rows[1].returns, 1),
                                            Frac(rows[k].adjusted_close,
                                                 rows[1].adjusted_close)),
                                    0 - 1))
            /\ call.value =
                    MaskedCorr(Rebased(PairExtract(1), n), Rebased(PairExtract(2), n),
                               IF call.fn = "ytd" THEN MinYtdLen ELSE MinQuarterLen)

\* Two extracts of different lengths were correlated, both paths start away
\* from 0, and the coefficient is defined and not 1.
C14_Witness ==
    /\ Compared
    /\ Len(PairExtract(1)) # Len(PairExtract(2))
    /\ calls[1].cum_returns[1][1] # Num(Frac(0, 1))
    /\ calls[1].cum_returns[2][1] # Num(Frac(0, 1))
    /\ ~calls[1].value.nan
    /\ calls[1].value # CorrOne

\* The place of a returned row in the order of the scan.
ScanPosition(row) == CHOOSE i \in 1..Len(correlations) : correlations[i] = row

SameCoefficient(row1, row2) ==
    /\ ~CorrLess(row1.correlation, row2.correlation)
    /\ ~CorrLess(row2.correlation, row1.correlation)

\* C15: rows with equal coefficients are returned in the order they were
\* scanned, and of two such rows on either side of the truncation the one
\* scanned earlier is the one returned.
C15_TiesInScanOrder ==
    Done =>
        /\ \A i, j \in 1..Len(Result) :
            (i < j /\ SameCoefficient(Result[i], Result[j]))
                => ScanPosition(Result[i]) < ScanPosition(Result[j])
        /\ \A kept \in Rows(Result) : \A dropped \in Rows(correlations) \ Rows(Result) :
            SameCoefficient(kept, dropped) => ScanPosition(kept) < ScanPosition(dropped)

\* fetch_data has returned to main (or main has gone on from there).
Fetched == calls # <<>> /\ pc \in {"fetched", "end", "unhandled", "construct", "ready"}

\* The secondary provider is asked exactly when the primary was not asked,
\* raised, or sent no rows.
FallbackProtocol ==
    Fetched =>
        /\ calls[1].primary # "untried" <=> Configured(calls[1].api_key)
        /\ calls[1].secondary # "untried" <=> calls[1].primary # "rows"

\* C16: fetch_data asks the secondary provider whenever the primary is not
\* configured, raises or sends no rows; on every path it returns a table,
\* so main stops at its data.empty check or builds the matcher on a non-empty
\* table, and no exception ends main.
C16_AlwaysTable ==
    /\ FallbackProtocol
    /\ Fetched => data # None
    /\ pc # "unhandled"
    /\ raised = "none"
    /\ pc = "end" => data = EmptyFrame
    /\ pc \in {"construct", "ready"} => data # EmptyFrame

====
